---------------------------- MODULE Spec2Model ----------------------------
(***************************************************************************)
(* Model of the bonus service of Backend/server.js: the startup schema     *)
(* initializer with its retry loop, the bonus-id generator, the validator, *)
(* the history query builder and the two request handlers, running         *)
(* against one PostgreSQL table "bonuses".                                 *)
(*                                                                         *)
(* JavaScript strings are sequences of one-character strings, so that the  *)
(* regular expressions, padStart, parseInt, replace and LIKE are computed  *)
(* character by character.  A JSON value is a record [t, s, n]: its type   *)
(* tag, its characters (strings) and its integer value (numbers).          *)
(*                                                                         *)
(* A request's database statements fail only for the reasons the table     *)
(* state decides (relation missing, duplicate key, value too long, numeric *)
(* overflow); the outcome of an initializer attempt is the environment's.  *)
(***************************************************************************)
EXTENDS Integers, Sequences, FiniteSets, TLC

VARIABLES
    proc,         \* "running" | "exited": process.exit(1) was called
    initPc,       \* where initializeDatabase stands
    retries,      \* its local variable retries
    attempts,     \* number of loop iterations started (history variable)
    tableExists,  \* whether relation bonuses exists in the database
    table,        \* the rows of bonuses, in insertion order
    reqs          \* the requests received so far, in order of arrival

vars == <<proc, initPc, retries, attempts, tableExists, table, reqs>>

-----------------------------------------------------------------------------
(* Characters and strings                                                  *)

DigitChars == <<"0", "1", "2", "3", "4", "5", "6", "7", "8", "9">>

LowerChars == <<"a", "b", "c", "d", "e", "f", "g", "h", "i", "j", "k", "l", "m",
                "n", "o", "p", "q", "r", "s", "t", "u", "v", "w", "x", "y", "z">>

UpperChars == <<"A", "B", "C", "D", "E", "F", "G", "H", "I", "J", "K", "L", "M",
                "N", "O", "P", "Q", "R", "S", "T", "U", "V", "W", "X", "Y", "Z">>

Range(f) == {f[i] : i \in DOMAIN f}

IsDigit(c) == c \in Range(DigitChars)

IsLetter(c) == c \in Range(LowerChars) \cup Range(UpperChars)

\* \s of a JavaScript regular expression (the members that occur in JSON text)
IsSpace(c) == c \in {" ", "\t", "\n", "\r"}

DigitVal(c) == (CHOOSE i \in 1..10 : DigitChars[i] = c) - 1

\* the i flag of a regular expression: compare after lowering the case
ToLower(c) ==
    IF c \in Range(UpperChars)
    THEN LowerChars[CHOOSE i \in 1..26 : UpperChars[i] = c]
    ELSE c

LowerStr(s) == [i \in 1..Len(s) |-> ToLower(s[i])]

\* s repeated n times
RECURSIVE Rep(_, _)
Rep(s, n) == IF n = 0 THEN <<>> ELSE s \o Rep(s, n - 1)

\* does pat occur in s at position i
OccursAt(s, pat, i) ==
    /\ i + Len(pat) - 1 <= Len(s)
    /\ \A k \in 1..Len(pat) : s[i + k - 1] = pat[k]

\* String.prototype.replace(pat, '') with a string pattern: the first
\* occurrence is removed, a string without the pattern is returned as is
ReplaceFirst(s, pat) ==
    LET hits == {i \in 1..Len(s) : OccursAt(s, pat, i)}
    IN  IF hits = {} THEN s
        ELSE LET i == CHOOSE h \in hits : \A g \in hits : h <= g
             IN  SubSeq(s, 1, i - 1) \o SubSeq(s, i + Len(pat), Len(s))

\* the decimal digits of a natural number: String(num)
RECURSIVE NatToStr(_)
NatToStr(n) ==
    IF n < 10 THEN <<DigitChars[n + 1]>>
    ELSE Append(NatToStr(n \div 10), DigitChars[(n % 10) + 1])

\* String.prototype.padStart(width, fill): pads on the left up to width and
\* never truncates
PadStart(s, width, fill) ==
    IF Len(s) >= width THEN s ELSE Rep(<<fill>>, width - Len(s)) \o s

\* parseInt(s): the value of the longest prefix of decimal digits; -1 stands
\* for NaN (no digit at the start)
RECURSIVE DigitsValue(_, _)
DigitsValue(s, acc) ==
    IF s = <<>> \/ ~IsDigit(Head(s)) THEN acc
    ELSE DigitsValue(Tail(s), 10 * acc + DigitVal(Head(s)))

NaN == -1

ParseInt(s) ==
    IF s = <<>> \/ ~IsDigit(Head(s)) THEN NaN ELSE DigitsValue(s, 0)

-----------------------------------------------------------------------------
(* JSON values as the validator sees them                                  *)

Undefined == [t |-> "undefined", s |-> <<>>, n |-> 0]
Null      == [t |-> "null", s |-> <<>>, n |-> 0]
True      == [t |-> "boolean", s |-> <<>>, n |-> 1]
Str(s)    == [t |-> "string", s |-> s, n |-> 0]
Num(n)    == [t |-> "number", s |-> <<>>, n |-> n]

\* String(v): the conversion RegExp.prototype.test applies to its argument
JsString(v) ==
    CASE v.t = "string"    -> v.s
      [] v.t = "undefined" -> <<"u", "n", "d", "e", "f", "i", "n", "e", "d">>
      [] v.t = "null"      -> <<"n", "u", "l", "l">>
      [] v.t = "boolean"   -> IF v.n = 1 THEN <<"t", "r", "u", "e">>
                                         ELSE <<"f", "a", "l", "s", "e">>
      [] v.t = "number"    -> IF v.n < 0 THEN <<"-">> \o NatToStr(0 - v.n)
                                         ELSE NatToStr(v.n)

\* ToBoolean(v): the truthiness tests of !data.month_year and data.reason &&
Truthy(v) ==
    CASE v.t = "string"    -> v.s # <<>>
      [] v.t = "undefined" -> FALSE
      [] v.t = "null"      -> FALSE
      [] v.t = "boolean"   -> v.n = 1
      [] v.t = "number"    -> v.n # 0

\* reading v.length throws a TypeError on undefined and null
LengthThrows(v) == v.t \in {"undefined", "null"}

\* v.length is a number only for a string; on a boolean or number it is
\* undefined
HasLength(v) == v.t = "string"

\* ToNumber(v) as isNaN and <= apply it: [nan, n]
ToNumber(v) ==
    CASE v.t = "number"    -> [nan |-> FALSE, n |-> v.n]
      [] v.t = "undefined" -> [nan |-> TRUE, n |-> 0]
      [] v.t = "null"      -> [nan |-> FALSE, n |-> 0]
      [] v.t = "boolean"   -> [nan |-> FALSE, n |-> v.n]
      [] v.t = "string"    ->
            IF v.s = <<>> THEN [nan |-> FALSE, n |-> 0]
            ELSE IF \A i \in 1..Len(v.s) : IsDigit(v.s[i])
                 THEN [nan |-> FALSE, n |-> DigitsValue(v.s, 0)]
                 ELSE [nan |-> TRUE, n |-> 0]

-----------------------------------------------------------------------------
(* validateBonusData                                                       *)

\* /^ATS0[0-9]{3}$/
MatchEmployeeId(s) ==
    /\ Len(s) = 7
    /\ SubSeq(s, 1, 4) = <<"A", "T", "S", "0">>
    /\ \A i \in 5..7 : IsDigit(s[i])

\* /^[a-zA-Z]+(?:\s[a-zA-Z]+)*$/ : runs of letters separated by exactly one
\* white-space character, none at either end
MatchName(s) ==
    /\ s # <<>>
    /\ \A i \in 1..Len(s) : IsLetter(s[i]) \/ IsSpace(s[i])
    /\ IsLetter(s[1]) /\ IsLetter(s[Len(s)])
    /\ \A i \in 1..(Len(s) - 1) : ~(IsSpace(s[i]) /\ IsSpace(s[i + 1]))

EmailDomain ==
    <<"@", "a", "s", "t", "r", "o", "l", "i", "t", "e", "t", "e", "c", "h",
      ".", "c", "o", "m">>

IsLocalChar(c) == IsLetter(c) \/ IsDigit(c) \/ c \in {".", "_", "%", "+", "-"}

\* /^[a-zA-Z0-9._%+-]+@astrolitetech\.com$/i
MatchEmail(s) ==
    LET d == Len(EmailDomain)
    IN  /\ Len(s) > d
        /\ LowerStr(SubSeq(s, Len(s) - d + 1, Len(s))) = EmailDomain
        /\ \A i \in 1..(Len(s) - d) : IsLocalChar(s[i])

BonusTypes ==
    { <<"P", "e", "r", "f", "o", "r", "m", "a", "n", "c", "e">>,
      <<"F", "e", "s", "t", "i", "v", "a", "l">>,
      <<"P", "r", "o", "j", "e", "c", "t", " ", "C", "o", "m", "p", "l", "e",
        "t", "i", "o", "n">>,
      <<"R", "e", "t", "e", "n", "t", "i", "o", "n">>,
      <<"R", "e", "f", "e", "r", "r", "a", "l">> }

MonthNames ==
    << <<"J", "a", "n", "u", "a", "r", "y">>,
       <<"F", "e", "b", "r", "u", "a", "r", "y">>,
       <<"M", "a", "r", "c", "h">>,
       <<"A", "p", "r", "i", "l">>,
       <<"M", "a", "y">>,
       <<"J", "u", "n", "e">>,
       <<"J", "u", "l", "y">>,
       <<"A", "u", "g", "u", "s", "t">>,
       <<"S", "e", "p", "t", "e", "m", "b", "e", "r">>,
       <<"O", "c", "t", "o", "b", "e", "r">>,
       <<"N", "o", "v", "e", "m", "b", "e", "r">>,
       <<"D", "e", "c", "e", "m", "b", "e", "r">> >>

InvalidDate == [valid |-> FALSE, month |-> 0, year |-> 0]

\* new Date(s) for s = data.month_year + ' 1'.  A string "<MonthName> <Year> 1"
\* is the first day of that month; the other strings enumerated in this
\* model (a month number out of range, no month at all) are Invalid Date.
DateParse(s) ==
    LET cands == {m \in 1..12 :
                    /\ Len(s) = Len(MonthNames[m]) + 7
                    /\ SubSeq(s, 1, Len(MonthNames[m])) = MonthNames[m]
                    /\ s[Len(MonthNames[m]) + 1] = " "
                    /\ \A i \in 2..5 : IsDigit(s[Len(MonthNames[m]) + i])
                    /\ SubSeq(s, Len(s) - 1, Len(s)) = <<" ", "1">>}
    IN  IF cands = {} THEN InvalidDate
        ELSE LET m == CHOOSE c \in cands : TRUE
             IN  [valid |-> TRUE, month |-> m,
                  year |-> DigitsValue(SubSeq(s, Len(MonthNames[m]) + 2,
                                                 Len(MonthNames[m]) + 5), 0)]

\* data.month_year + ' 1'
MonthYearPlusDay(v) == JsString(v) \o <<" ", "1">>

ErrEmployeeId == "Invalid employee ID (format: ATS0XXX)"
ErrName       == "Invalid employee name (letters, spaces, 3-40 chars)"
ErrEmail      == "Invalid email format (must be @astrolitetech.com)"
ErrBonusType  == "Invalid bonus type"
ErrAmount     == "Amount must be a positive number"
ErrMonthYear  == "Invalid month/year format (e.g., January 2025)"
ErrReason     == "Reason must be 200 characters or less"

MinNameLen == 3
MaxNameLen == 40
MaxReasonLen == 200

\* the seven tests of validateBonusData, each TRUE when its message is pushed
BadEmployeeId(data) ==
    \/ ~MatchEmployeeId(JsString(data.employee_id))
    \/ data.employee_id = Str(<<"A", "T", "S", "0", "0", "0", "0">>)

\* the regular expression is tested first; .length is read only when it matched
NameLengthRead(data) == MatchName(JsString(data.employee_name))

BadName(data) ==
    \/ ~MatchName(JsString(data.employee_name))
    \/ /\ HasLength(data.employee_name)
       /\ \/ Len(data.employee_name.s) < MinNameLen
          \/ Len(data.employee_name.s) > MaxNameLen

BadEmail(data) == ~MatchEmail(JsString(data.employee_email))

BadBonusType(data) ==
    ~(data.bonus_type.t = "string" /\ data.bonus_type.s \in BonusTypes)

BadAmount(data) ==
    LET a == ToNumber(data.amount) IN a.nan \/ a.n <= 0

BadMonthYear(data) ==
    \/ ~Truthy(data.month_year)
    \/ ~DateParse(MonthYearPlusDay(data.month_year)).valid

BadReason(data) ==
    /\ Truthy(data.reason)
    /\ HasLength(data.reason)
    /\ Len(data.reason.s) > MaxReasonLen

Push(errors, bad, msg) == IF bad THEN Append(errors, msg) ELSE errors

\* validateBonusData(data): [threw, errors].  It throws a TypeError when
\* data.employee_name.length is read on undefined or null.
validateBonusData(data) ==
    IF NameLengthRead(data) /\ LengthThrows(data.employee_name)
    THEN [threw |-> TRUE, errors |-> <<>>]
    ELSE [threw |-> FALSE,
          errors |->
            Push(Push(Push(Push(Push(Push(Push(<<>>,
              BadEmployeeId(data), ErrEmployeeId),
              BadName(data), ErrName),
              BadEmail(data), ErrEmail),
              BadBonusType(data), ErrBonusType),
              BadAmount(data), ErrAmount),
              BadMonthYear(data), ErrMonthYear),
              BadReason(data), ErrReason)]

\* errors.join(', ')
RECURSIVE Join(_)
Join(errors) ==
    IF errors = <<>> THEN ""
    ELSE IF Len(errors) = 1 THEN errors[1]
    ELSE errors[1] \o ", " \o Join(Tail(errors))

-----------------------------------------------------------------------------
(* The table bonuses and generateBonusId                                   *)

\* column widths of CREATE TABLE bonuses
BonusIdWidth == 10
EmployeeIdWidth == 7
EmployeeNameWidth == 40
EmployeeEmailWidth == 40
BonusTypeWidth == 20
ReasonWidth == 200
\* DECIMAL(10, 2): at most 8 digits before the decimal point
AmountIntDigits == 8

RECURSIVE Pow10(_)
Pow10(k) == IF k = 0 THEN 1 ELSE 10 * Pow10(k - 1)

\* the collation order of the characters bonus ids are made of: digits
\* before letters, each in its own order
CharRank(c) ==
    IF IsDigit(c) THEN DigitVal(c)
    ELSE 10 + (CHOOSE i \in 1..26 : UpperChars[i] = c)

\* a < b as ORDER BY compares text: first difference decides, a proper
\* prefix sorts first
RECURSIVE TextLess(_, _)
TextLess(a, b) ==
    IF b = <<>> THEN FALSE
    ELSE IF a = <<>> THEN TRUE
    ELSE IF Head(a) = Head(b) THEN TextLess(Tail(a), Tail(b))
    ELSE CharRank(Head(a)) < CharRank(Head(b))

\* index of the row of rows[lo..hi] with the greatest bonus_id
RECURSIVE GreatestIdIn(_, _, _)
GreatestIdIn(rows, lo, hi) ==
    IF lo = hi THEN lo
    ELSE LET mid == (lo + hi) \div 2
             l == GreatestIdIn(rows, lo, mid)
             r == GreatestIdIn(rows, mid + 1, hi)
         IN  IF TextLess(rows[l].bonus_id, rows[r].bonus_id) THEN r ELSE l

\* SELECT bonus_id FROM bonuses ORDER BY bonus_id DESC LIMIT 1
SelectLastId(rows) ==
    IF Len(rows) = 0 THEN <<>>
    ELSE <<rows[GreatestIdIn(rows, 1, Len(rows))].bonus_id>>

BonPrefix == <<"B", "O", "N">>
PadWidth == 4

\* `BON${String(num).padStart(4, '0')}`
RenderBonusId(num) ==
    BonPrefix \o PadStart(IF num = NaN THEN <<"N", "a", "N">> ELSE NatToStr(num),
                          PadWidth, "0")

\* parseInt(lastId.replace('BON', '')) + 1, NaN + 1 being NaN
NextNumber(lastId) ==
    LET n == ParseInt(ReplaceFirst(lastId, BonPrefix))
    IN  IF n = NaN THEN NaN ELSE n + 1

\* generateBonusId, given the rows the SELECT returned
generateBonusId(rows) ==
    IF Len(rows) > 0 THEN RenderBonusId(NextNumber(rows[1])) ELSE RenderBonusId(1)

\* the values of the INSERT statement, as node-postgres sends them
InsertValues(bonusId, body) ==
    [bonus_id       |-> bonusId,
     employee_id    |-> JsString(body.employee_id),
     employee_name  |-> JsString(body.employee_name),
     employee_email |-> JsString(body.employee_email),
     bonus_type     |-> JsString(body.bonus_type),
     amount         |-> ToNumber(body.amount).n,
     month          |-> DateParse(MonthYearPlusDay(body.month_year)).month,
     year           |-> DateParse(MonthYearPlusDay(body.month_year)).year,
     reason         |-> IF Truthy(body.reason) THEN Str(JsString(body.reason))
                                               ELSE Null]

ErrNoTable   == "relation \"bonuses\" does not exist"
ErrDuplicate == "duplicate key value violates unique constraint \"bonuses_pkey\""
ErrTooLong   == "value too long for type character varying"
ErrOverflow  == "numeric field overflow"

\* bonus_id VARCHAR(10) PRIMARY KEY
PrimaryKeyTaken(rows, id) == \E i \in 1..Len(rows) : rows[i].bonus_id = id

\* InsertError with the primary key left unchecked
InsertErrorNoKey(exists, rows, v) ==
    IF ~exists THEN ErrNoTable
    ELSE IF \/ Len(v.employee_email) > EmployeeEmailWidth
            \/ Len(v.reason.s) > ReasonWidth
         THEN ErrTooLong
    ELSE ""

\* the error PostgreSQL answers the INSERT with, "" when it stores the row
InsertError(exists, rows, v) ==
    IF ~exists THEN ErrNoTable
    ELSE IF \/ Len(v.bonus_id) > BonusIdWidth
            \/ Len(v.employee_id) > EmployeeIdWidth
            \/ Len(v.employee_name) > EmployeeNameWidth
            \/ Len(v.employee_email) > EmployeeEmailWidth
            \/ Len(v.bonus_type) > BonusTypeWidth
            \/ Len(v.reason.s) > ReasonWidth
         THEN ErrTooLong
    ELSE IF v.amount >= Pow10(AmountIntDigits) THEN ErrOverflow
    ELSE IF PrimaryKeyTaken(rows, v.bonus_id) THEN ErrDuplicate
    ELSE ""

\* the stored row: created_at DEFAULT CURRENT_TIMESTAMP is the position in
\* insertion order
StoredRow(rows, v) ==
    [bonus_id |-> v.bonus_id, employee_id |-> v.employee_id,
     employee_name |-> v.employee_name, employee_email |-> v.employee_email,
     bonus_type |-> v.bonus_type, amount |-> v.amount, month |-> v.month,
     year |-> v.year, reason |-> v.reason, created_at |-> Len(rows) + 1]

-----------------------------------------------------------------------------
(* The history query: text fragments and bound parameters                  *)

NaNValue == [t |-> "NaN", s |-> <<>>, n |-> 0]

\* the value parseInt hands to params.push
IntParam(s) == IF ParseInt(s) = NaN THEN NaNValue ELSE Num(ParseInt(s))

LitSelect ==
    "SELECT bonus_id, employee_id, employee_name, employee_email, bonus_type, amount, TO_CHAR(month_year, 'Month YYYY') AS month_year, reason, created_at FROM bonuses WHERE 1=1"
LitEmployeeId == " AND employee_id = $"
LitMonthGe    == " AND EXTRACT(MONTH FROM month_year) >= $"
LitYearGe     == " AND EXTRACT(YEAR FROM month_year) >= $"
LitMonthLe    == " AND EXTRACT(MONTH FROM month_year) <= $"
LitYearLe     == " AND EXTRACT(YEAR FROM month_year) <= $"
LitYearEq     == " AND EXTRACT(YEAR FROM month_year) = $"
LitSearchId   == " AND (employee_id LIKE $"
LitSearchName == " OR employee_name LIKE $"
LitSearchEnd  == ")"
LitOrderBy    == " ORDER BY created_at DESC"

\* query += `<lit>${paramCount++}`: the text, then the placeholder number
AddPlaceholder(st, lit) ==
    [st EXCEPT !.sql = Append(@, [lit |-> lit, ph |-> st.paramCount]),
               !.paramCount = @ + 1]

\* query += '<lit>' without a placeholder
AddText(st, lit) == [st EXCEPT !.sql = Append(@, [lit |-> lit, ph |-> 0])]

\* params.push(v)
PushParam(st, v) == [st EXCEPT !.params = Append(@, v)]

\* `%${search}%`
LikePattern(s) == <<"%">> \o s \o <<"%">>

WithEmployeeId(st, q) ==
    IF Truthy(q.employee_id)
    THEN PushParam(AddPlaceholder(st, LitEmployeeId), q.employee_id)
    ELSE st

\* WithStart pushing the year before the month
WithStartSwapped(st, q) ==
    IF Truthy(q.month) /\ Truthy(q.year)
    THEN PushParam(PushParam(
           AddPlaceholder(AddPlaceholder(st, LitMonthGe), LitYearGe),
           IntParam(q.year.s)), IntParam(q.month.s))
    ELSE st

WithStart(st, q) ==
    IF Truthy(q.month) /\ Truthy(q.year)
    THEN PushParam(PushParam(
           AddPlaceholder(AddPlaceholder(st, LitMonthGe), LitYearGe),
           IntParam(q.month.s)), IntParam(q.year.s))
    ELSE st

\* WithEndOrYear whose year-only filter compares with >=
WithEndOrYearGe(st, q) ==
    IF Truthy(q.end_month) /\ Truthy(q.end_year)
    THEN PushParam(PushParam(
           AddPlaceholder(AddPlaceholder(st, LitMonthLe), LitYearLe),
           IntParam(q.end_month.s)), IntParam(q.end_year.s))
    ELSE IF Truthy(q.year) /\ ~Truthy(q.month)
    THEN PushParam(AddPlaceholder(st, LitYearGe), IntParam(q.year.s))
    ELSE st

WithEndOrYear(st, q) ==
    IF Truthy(q.end_month) /\ Truthy(q.end_year)
    THEN PushParam(PushParam(
           AddPlaceholder(AddPlaceholder(st, LitMonthLe), LitYearLe),
           IntParam(q.end_month.s)), IntParam(q.end_year.s))
    ELSE IF Truthy(q.year) /\ ~Truthy(q.month)
    THEN PushParam(AddPlaceholder(st, LitYearEq), IntParam(q.year.s))
    ELSE st

WithSearch(st, q) ==
    IF Truthy(q.search)
    THEN PushParam(PushParam(
           AddText(AddPlaceholder(AddPlaceholder(st, LitSearchId), LitSearchName),
                   LitSearchEnd),
           Str(LikePattern(q.search.s))), Str(LikePattern(q.search.s)))
    ELSE st

\* the query text and argument list the history handler hands to pool.query
BuildQuery(q) ==
    AddText(
      WithSearch(WithEndOrYear(WithStart(WithEmployeeId(
        [sql |-> <<[lit |-> LitSelect, ph |-> 0]>>, params |-> <<>>,
         paramCount |-> 1], q), q), q), q),
      LitOrderBy)

\* text LIKE pattern: % stands for any run of characters, _ for any one
RECURSIVE Like(_, _)
Like(text, pat) ==
    IF pat = <<>> THEN text = <<>>
    ELSE IF Head(pat) = "%"
         THEN \/ Like(text, Tail(pat))
              \/ text # <<>> /\ Like(Tail(text), pat)
    ELSE /\ text # <<>>
         /\ Head(pat) = "_" \/ Head(pat) = Head(text)
         /\ Like(Tail(text), Tail(pat))

\* comparisons of a column with a float8 parameter; NaN sorts above every
\* number
NumGe(x, p) == p.t # "NaN" /\ x >= p.n
NumLe(x, p) == p.t = "NaN" \/ x <= p.n
NumEq(x, p) == p.t # "NaN" /\ x = p.n

\* whether row satisfies the condition that fragment i of the text opens
ClauseHolds(row, sql, params, i) ==
    LET f == sql[i]
    IN  CASE f.lit = LitEmployeeId -> row.employee_id = params[f.ph].s
          [] f.lit = LitMonthGe    -> NumGe(row.month, params[f.ph])
          [] f.lit = LitYearGe     -> NumGe(row.year, params[f.ph])
          [] f.lit = LitMonthLe    -> NumLe(row.month, params[f.ph])
          [] f.lit = LitYearLe     -> NumLe(row.year, params[f.ph])
          [] f.lit = LitYearEq     -> NumEq(row.year, params[f.ph])
          [] f.lit = LitSearchId   ->
                \/ Like(row.employee_id, params[f.ph].s)
                \/ Like(row.employee_name, params[sql[i + 1].ph].s)
          [] OTHER -> TRUE

WhereHolds(row, sql, params) ==
    \A i \in 1..Len(sql) : ClauseHolds(row, sql, params, i)

MonthFieldWidth == 9
YearFieldWidth == 4

\* TO_CHAR(month_year, 'Month YYYY'): the month name blank-padded to nine
\* characters, a blank, the year
ToCharMonthYear(m, y) ==
    MonthNames[m] \o Rep(<<" ">>, MonthFieldWidth - Len(MonthNames[m]))
      \o <<" ">> \o PadStart(NatToStr(y), YearFieldWidth, "0")

\* the columns of the SELECT list
Project(row) ==
    [bonus_id |-> row.bonus_id, employee_id |-> row.employee_id,
     employee_name |-> row.employee_name, employee_email |-> row.employee_email,
     bonus_type |-> row.bonus_type, amount |-> row.amount,
     month_year |-> ToCharMonthYear(row.month, row.year),
     reason |-> row.reason, created_at |-> row.created_at]

Reverse(s) == [i \in 1..Len(s) |-> s[Len(s) + 1 - i]]

\* the placeholders of the text, in order of appearance
PlaceholdersOf(sql) ==
    LET withPh == SelectSeq(sql, LAMBDA f : f.ph > 0)
    IN  [i \in 1..Len(withPh) |-> withPh[i].ph]

ErrBind == "bind message supplies the wrong number of parameters"

\* the error PostgreSQL answers the SELECT with, "" when it runs
SelectError(exists, sql, params) ==
    IF ~exists THEN ErrNoTable
    ELSE IF \E k \in Range(PlaceholdersOf(sql)) : k > Len(params) THEN ErrBind
    ELSE IF Len(params) > 0 /\ Len(params) \notin Range(PlaceholdersOf(sql))
         THEN ErrBind
    ELSE ""

\* the rows the SELECT returns: created_at descending
SelectRows(rows, sql, params) ==
    LET hit == SelectSeq(rows, LAMBDA r : WhereHolds(r, sql, params))
    IN  Reverse([i \in 1..Len(hit) |-> Project(hit[i])])

-----------------------------------------------------------------------------
(* Requests                                                                *)

NoBody ==
    [employee_id |-> Undefined, employee_name |-> Undefined,
     employee_email |-> Undefined, bonus_type |-> Undefined,
     amount |-> Undefined, month_year |-> Undefined, reason |-> Undefined]

NoQuery ==
    [employee_id |-> Undefined, month |-> Undefined, year |-> Undefined,
     end_month |-> Undefined, end_year |-> Undefined, search |-> Undefined]

\* the requests answered so far
Answered(rs) == {i \in 1..Len(rs) : rs[i].pc = "done"}

\* a request as received: nothing sent to the database, no response yet;
\* after is a history variable, the requests that were answered before it
\* arrived
NewRequest(kind, body, query, after) ==
    [kind |-> kind, body |-> body, query |-> query, after |-> after,
     pc |-> "received",
     sent |-> 0, threw |-> FALSE, errors |-> <<>>, lastRead |-> <<>>,
     newId |-> <<>>, sql |-> <<>>, params |-> <<>>,
     status |-> 0, error |-> "", message |-> "", bonus |-> <<>>, rows |-> <<>>]

StatusCreated == 201
StatusOk == 200
StatusBadRequest == 400
StatusServerError == 500

\* await pool.query(...): the statement is sent and the handler suspends
Await(r, pc) == [r EXCEPT !.pc = pc, !.sent = @ + 1]

\* res.status(400).json({ error: errors.join(', ') })
RespondInvalid(r, errors) ==
    [r EXCEPT !.pc = "done", !.errors = errors, !.status = StatusBadRequest,
              !.error = Join(errors)]

\* catch (err) of the create handler
CreateCatch(r, msg) ==
    [r EXCEPT !.pc = "done", !.status = StatusServerError,
              !.error = "Failed to create bonus: " \o msg]

\* catch (err) of the history handler
HistoryCatch(r, msg) ==
    [r EXCEPT !.pc = "done", !.status = StatusServerError,
              !.error = "Failed to fetch bonus history: " \o msg]

\* res.status(201).json({ message, bonus: rows[0] })
RespondCreated(r, row) ==
    [r EXCEPT !.pc = "done", !.status = StatusCreated,
              !.message = "Bonus created successfully", !.bonus = <<row>>]

\* res.status(200).json(rows)
RespondRows(r, rows) == [r EXCEPT !.pc = "done", !.status = StatusOk, !.rows = rows]

TypeErrorMessage(v) ==
    IF v.t = "null" THEN "Cannot read properties of null (reading 'length')"
    ELSE "Cannot read properties of undefined (reading 'length')"

\* the create handler up to its first await
CreateStart(r) ==
    LET v == validateBonusData(r.body)
    IN  IF v.threw
        THEN [CreateCatch(r, TypeErrorMessage(r.body.employee_name))
                EXCEPT !.threw = TRUE]
        ELSE IF Len(v.errors) > 0 THEN RespondInvalid(r, v.errors)
        ELSE Await(r, "selectMax")

\* the create handler after generateBonusId's SELECT was answered
CreateAfterSelect(r, exists, rows) ==
    IF ~exists THEN CreateCatch(r, ErrNoTable)
    ELSE Await([r EXCEPT !.lastRead = SelectLastId(rows),
                         !.newId = generateBonusId(SelectLastId(rows))],
               "insert")

\* CreateAfterInsert generating a new id when the INSERT fails
CreateAfterInsertRetry(r, exists, rows) ==
    LET v == InsertValues(r.newId, r.body)
    IN  IF InsertError(exists, rows, v) # ""
        THEN Await(r, "selectMax")
        ELSE RespondCreated(r, StoredRow(rows, v))

\* the create handler after the INSERT was answered
CreateAfterInsert(r, exists, rows) ==
    LET v == InsertValues(r.newId, r.body)
    IN  IF InsertError(exists, rows, v) # ""
        THEN CreateCatch(r, InsertError(exists, rows, v))
        ELSE RespondCreated(r, StoredRow(rows, v))

\* the history handler up to its await
HistoryStart(r) ==
    LET b == BuildQuery(r.query)
    IN  Await([r EXCEPT !.sql = b.sql, !.params = b.params], "select")

\* HistoryAfterSelect answering an empty list when the SELECT fails
HistoryAfterSelectSwallow(r, exists, rows) ==
    IF SelectError(exists, r.sql, r.params) # ""
    THEN RespondRows(r, <<>>)
    ELSE RespondRows(r, SelectRows(rows, r.sql, r.params))

\* the history handler after the SELECT was answered
HistoryAfterSelect(r, exists, rows) ==
    IF SelectError(exists, r.sql, r.params) # ""
    THEN HistoryCatch(r, SelectError(exists, r.sql, r.params))
    ELSE RespondRows(r, SelectRows(rows, r.sql, r.params))

-----------------------------------------------------------------------------
(* Actions                                                                 *)

maxRetries == 5

\* app.post('/api/bonus'): a create request arrives and runs to its first
\* await or to its response
PostReceive(bodies, max) ==
    /\ proc = "running"
    /\ Len(reqs) < max
    /\ \E body \in bodies :
         reqs' = Append(reqs, CreateStart(NewRequest("create", body, NoQuery, Answered(reqs))))
    /\ UNCHANGED <<proc, initPc, retries, attempts, tableExists, table>>

\* the database runs generateBonusId's SELECT of request i and the handler
\* resumes
DbSelectMax(i) ==
    /\ proc = "running"
    /\ reqs[i].pc = "selectMax"
    /\ reqs' = [reqs EXCEPT ![i] = CreateAfterSelect(@, tableExists, table)]
    /\ UNCHANGED <<proc, initPc, retries, attempts, tableExists, table>>

\* the database runs the INSERT of request i and the handler resumes
DbInsert(i) ==
    /\ proc = "running"
    /\ reqs[i].pc = "insert"
    /\ reqs' = [reqs EXCEPT ![i] = CreateAfterInsert(@, tableExists, table)]
    /\ table' = IF reqs'[i].status = StatusCreated
                THEN Append(table, reqs'[i].bonus[1])
                ELSE table
    /\ UNCHANGED <<proc, initPc, retries, attempts, tableExists>>

\* app.get('/api/bonus/history'): a history request arrives, builds its
\* query and sends it
GetReceive(queries, max) ==
    /\ proc = "running"
    /\ Len(reqs) < max
    /\ \E q \in queries :
         reqs' = Append(reqs, HistoryStart(NewRequest("history", NoBody, q, Answered(reqs))))
    /\ UNCHANGED <<proc, initPc, retries, attempts, tableExists, table>>

\* the database runs the SELECT of history request i and the handler resumes
DbSelect(i) ==
    /\ proc = "running"
    /\ reqs[i].pc = "select"
    /\ reqs' = [reqs EXCEPT ![i] = HistoryAfterSelect(@, tableExists, table)]
    /\ UNCHANGED <<proc, initPc, retries, attempts, tableExists, table>>

\* InitCatch comparing after one retry too many
InitCatchLate(n) ==
    IF n + 1 > maxRetries
    THEN [pc |-> "exited", retries |-> n + 1, proc |-> "exited"]
    ELSE [pc |-> "sleep", retries |-> n + 1, proc |-> "running"]

\* catch (err) of initializeDatabase: [pc, retries, proc] after it
InitCatch(n) ==
    IF n + 1 = maxRetries
    THEN [pc |-> "exited", retries |-> n + 1, proc |-> "exited"]
    ELSE [pc |-> "sleep", retries |-> n + 1, proc |-> "running"]

\* await pool.connect() is answered: connected, or the attempt fails
InitConnect ==
    /\ proc = "running"
    /\ initPc = "connect"
    /\ \E ok \in BOOLEAN :
         IF ok
         THEN /\ initPc' = "createTable"
              /\ UNCHANGED <<retries, proc>>
         ELSE /\ initPc' = InitCatch(retries).pc
              /\ retries' = InitCatch(retries).retries
              /\ proc' = InitCatch(retries).proc
    /\ UNCHANGED <<attempts, tableExists, table, reqs>>

\* await pool.query(CREATE TABLE IF NOT EXISTS ...) is answered
InitCreateTable ==
    /\ proc = "running"
    /\ initPc = "createTable"
    /\ \E ok \in BOOLEAN :
         IF ok
         THEN /\ initPc' = "done"
              /\ tableExists' = TRUE
              /\ UNCHANGED <<retries, proc>>
         ELSE /\ initPc' = InitCatch(retries).pc
              /\ retries' = InitCatch(retries).retries
              /\ proc' = InitCatch(retries).proc
              /\ UNCHANGED tableExists
    /\ UNCHANGED <<attempts, table, reqs>>

\* the 5 second timer fires and the loop starts its next iteration
InitRetry ==
    /\ proc = "running"
    /\ initPc = "sleep"
    /\ retries < maxRetries
    /\ initPc' = "connect"
    /\ attempts' = attempts + 1
    /\ UNCHANGED <<retries, proc, tableExists, table, reqs>>

Initializer == InitConnect \/ InitCreateTable \/ InitRetry

-----------------------------------------------------------------------------
(* Inputs                                                                  *)

EmpA == <<"A", "T", "S", "0", "0", "0", "1">>
EmpB == <<"A", "T", "S", "0", "0", "0", "2">>
EmpZero == <<"A", "T", "S", "0", "0", "0", "0">>
NameA == <<"A", "s", "h", "a", " ", "R", "a", "o">>
NameB == <<"R", "a", "v", "i">>
EmailA == <<"a", "s", "h", "a", "@", "a", "s", "t", "r", "o", "l", "i", "t",
          "e", "t", "e", "c", "h", ".", "c", "o", "m">>
EmailB == <<"r", "a", "v", "i", "@", "A", "s", "t", "r", "o", "l", "i", "t",
          "e", "T", "e", "c", "h", ".", "c", "o", "m">>
Performance == <<"P", "e", "r", "f", "o", "r", "m", "a", "n", "c", "e">>
Festival == <<"F", "e", "s", "t", "i", "v", "a", "l">>
January2025 == <<"J", "a", "n", "u", "a", "r", "y", " ", "2", "0", "2", "5">>
March2024 == <<"M", "a", "r", "c", "h", " ", "2", "0", "2", "4">>
February2024 == <<"F", "e", "b", "r", "u", "a", "r", "y", " ", "2", "0", "2", "4">>
April2024 == <<"A", "p", "r", "i", "l", " ", "2", "0", "2", "4">>
March2023 == <<"M", "a", "r", "c", "h", " ", "2", "0", "2", "3">>

BodyA ==
    [employee_id |-> Str(EmpA), employee_name |-> Str(NameA),
     employee_email |-> Str(EmailA), bonus_type |-> Str(Performance),
     amount |-> Num(500), month_year |-> Str(January2025), reason |-> Undefined]

BodyB ==
    [employee_id |-> Str(EmpB), employee_name |-> Str(NameB),
     employee_email |-> Str(EmailB), bonus_type |-> Str(Festival),
     amount |-> Num(250), month_year |-> Str(March2024),
     reason |-> Str(<<"D", "i", "w", "a", "l", "i">>)]

\* employee_id ATS0000, which the validator rejects
BodyZeroId == [BodyA EXCEPT !.employee_id = Str(EmpZero)]

\* a body the validator accepts whose e-mail address is wider than its column
BodyLongEmail ==
    [BodyB EXCEPT !.employee_email = Str(Rep(<<"a">>, 30) \o EmailDomain)]

QueryAll == NoQuery
QueryEmpA == [NoQuery EXCEPT !.employee_id = Str(EmpA)]

ServiceBodies == {BodyA, BodyB, BodyLongEmail, BodyZeroId}
ReadyBodies == {BodyA, BodyB, BodyZeroId}
ServiceQueries == {QueryAll, QueryEmpA}

\* number of requests received while the initializer runs
MaxRequests == 2

\* number of requests the initialized service receives
MaxReadyRequests == 3

-----------------------------------------------------------------------------
(* The service from a fresh database.  A pending await is answered and the *)
(* timer fires: the initializer's steps are weakly fair.                   *)

\* the listen callback has called initializeDatabase, whose first
\* pool.connect() is pending; the database holds no table yet
Init ==
    /\ proc = "running"
    /\ initPc = "connect"
    /\ retries = 0
    /\ attempts = 1
    /\ tableExists = FALSE
    /\ table = <<>>
    /\ reqs = <<>>

Next ==
    \/ InitConnect
    \/ InitCreateTable
    \/ InitRetry
    \/ PostReceive(ServiceBodies, MaxRequests)
    \/ GetReceive(ServiceQueries, MaxRequests)
    \/ \E i \in 1..Len(reqs) : DbSelectMax(i)
    \/ \E i \in 1..Len(reqs) : DbInsert(i)
    \/ \E i \in 1..Len(reqs) : DbSelect(i)

Spec == Init /\ [][Next]_vars /\ WF_vars(Initializer)

-----------------------------------------------------------------------------
(* The initialized service under concurrent requests                       *)

\* initializeDatabase has returned and bonuses is empty
InitReady ==
    /\ proc = "running"
    /\ initPc = "done"
    /\ retries = 0
    /\ attempts = 1
    /\ tableExists = TRUE
    /\ table = <<>>
    /\ reqs = <<>>

NextReady ==
    \/ PostReceive(ReadyBodies, MaxReadyRequests)
    \/ GetReceive(ServiceQueries, MaxReadyRequests)
    \/ \E i \in 1..Len(reqs) : DbSelectMax(i)
    \/ \E i \in 1..Len(reqs) : DbInsert(i)
    \/ \E i \in 1..Len(reqs) : DbSelect(i)

SpecReady == InitReady /\ [][NextReady]_vars

-----------------------------------------------------------------------------
(* The service late in its life: the four-digit suffixes are used up       *)

\* the table after n creates of BodyA, one after the other
TableAfter(n) ==
    [i \in 1..n |->
        [StoredRow(<<>>, InsertValues(RenderBonusId(i), BodyA))
            EXCEPT !.created_at = i]]

\* the greatest number a suffix of PadWidth digits holds
LastPadded == Pow10(PadWidth) - 1


\* number of create requests a late run receives
MaxLateRequests == 2

\* initializeDatabase has returned; bonuses holds the ids BON0001 .. BON9998
\* or BON0001 .. BON9999, stored by that many creates
InitLate ==
    /\ proc = "running"
    /\ initPc = "done"
    /\ retries = 0
    /\ attempts = 1
    /\ tableExists = TRUE
    /\ table \in {TableAfter(LastPadded - 1), TableAfter(LastPadded)}
    /\ reqs = <<>>

NextLate ==
    \/ PostReceive(ReadyBodies, MaxLateRequests)
    \/ \E i \in 1..Len(reqs) : DbSelectMax(i)
    \/ \E i \in 1..Len(reqs) : DbInsert(i)

SpecLate == InitLate /\ [][NextLate]_vars

-----------------------------------------------------------------------------
(* The create handler on every body of a catalogue of field values         *)

EmployeeIdValues ==
    {Undefined, Str(EmpA), Str(EmpZero), Str(<<"A", "T", "S", "0", "0", "1">>), Str(<<"a", "t", "s", "0", "0", "0", "1">>)}

NameValues ==
    {Undefined, Null, Str(NameA), Str(<<"A", "l">>),
     Str(<<"A", "s", "h", "a", " ", " ", "R", "a", "o">>),
     Str(Rep(<<"a">>, MaxNameLen + 1))}

EmailValues ==
    {Undefined, Str(EmailA), Str(EmailB),
     Str(<<"a", "s", "h", "a", "@", "g", "m", "a", "i", "l", ".", "c", "o", "m">>),
     BodyLongEmail.employee_email}

BonusTypeValues == {Undefined, Str(Performance), Str(<<"p", "e", "r", "f", "o", "r", "m", "a", "n", "c", "e">>)}

AmountValues ==
    {Undefined, Num(500), Num(0), Str(<<"1", "2">>), Str(<<"a", "b", "c">>)}

MonthYearValues ==
    {Undefined, Str(<<>>), Str(January2025), Str(<<"1", "3", "/", "2", "0", "2", "5">>)}

ReasonValues ==
    {Undefined, Str(<<"D", "i", "w", "a", "l", "i">>),
     Str(Rep(<<"x">>, MaxReasonLen + 1))}

AllBodies ==
    [employee_id : EmployeeIdValues, employee_name : NameValues,
     employee_email : EmailValues, bonus_type : BonusTypeValues,
     amount : AmountValues, month_year : MonthYearValues, reason : ReasonValues]

NextValidate ==
    \/ PostReceive(AllBodies, 1)
    \/ \E i \in 1..Len(reqs) : DbSelectMax(i)
    \/ \E i \in 1..Len(reqs) : DbInsert(i)

SpecValidate == InitReady /\ [][NextValidate]_vars

-----------------------------------------------------------------------------
(* The history handler on every combination of filters, over a fixture     *)

\* the table after the creates of bodies, one after the other
RECURSIVE TableOf(_)
TableOf(bodies) ==
    IF bodies = <<>> THEN <<>>
    ELSE LET prev == TableOf(SubSeq(bodies, 1, Len(bodies) - 1))
             id   == generateBonusId(SelectLastId(prev))
         IN  Append(prev, StoredRow(prev, InsertValues(id, bodies[Len(bodies)])))

FixtureBodies ==
    << [BodyA EXCEPT !.month_year = Str(February2024)],
       [BodyA EXCEPT !.month_year = Str(March2024)],
       [BodyB EXCEPT !.month_year = Str(April2024)],
       [BodyB EXCEPT !.month_year = Str(March2023)],
       BodyA >>

AllQueries ==
    [employee_id : {Undefined, Str(EmpA)},
     month : {Undefined, Str(<<>>), Str(<<"3">>)},
     year : {Undefined, Str(<<"2", "0", "2", "3">>), Str(<<"2", "0", "2", "4">>)},
     end_month : {Undefined, Str(<<"1", "2">>)},
     end_year : {Undefined, Str(<<"2", "0", "2", "4">>)},
     search : {Undefined, Str(<<"A", "T", "S", "0">>), Str(<<"a", "_", "i">>)}]

\* number of history requests a run over the fixture receives
MaxQueryRequests == 1

InitFixture ==
    /\ proc = "running"
    /\ initPc = "done"
    /\ retries = 0
    /\ attempts = 1
    /\ tableExists = TRUE
    /\ table = TableOf(FixtureBodies)
    /\ reqs = <<>>

NextQuery ==
    \/ GetReceive(AllQueries, MaxQueryRequests)
    \/ \E i \in 1..Len(reqs) : DbSelect(i)

SpecQuery == InitFixture /\ [][NextQuery]_vars

-----------------------------------------------------------------------------
(* Properties                                                              *)

\* the number a bonus id carries after its prefix
BonusNumber(id) == ParseInt(ReplaceFirst(id, BonPrefix))

\* BON followed by exactly PadWidth digits
IsPaddedId(id) ==
    /\ Len(id) = Len(BonPrefix) + PadWidth
    /\ SubSeq(id, 1, Len(BonPrefix)) = BonPrefix
    /\ \A k \in (Len(BonPrefix) + 1)..Len(id) : IsDigit(id[k])

Creates == {i \in 1..Len(reqs) : reqs[i].kind = "create"}
Histories == {i \in 1..Len(reqs) : reqs[i].kind = "history"}

\* C1: the stored bonus ids are pairwise distinct, and every row carries a
\* number strictly greater than that of every row stored before it (table
\* is in insertion order and rows are never removed).
C1_DistinctIncreasingIds ==
    \A i, j \in 1..Len(table) :
        i < j => /\ table[i].bonus_id # table[j].bonus_id
                 /\ BonusNumber(table[i].bonus_id) < BonusNumber(table[j].bonus_id)

\* two creates raced for one id, one lost on the primary key, and a later
\* create stored the next id
C1_Witness ==
    /\ Len(table) >= 2
    /\ \E i \in Creates : reqs[i].pc = "done" /\ reqs[i].status = StatusServerError
                          /\ reqs[i].newId = table[1].bonus_id

\* C2 (one step): when generateBonusId runs for a request, it yields BON0001
\* on an empty table and otherwise BON and exactly four digits, numbering one
\* more than the greatest stored number; the id its SELECT reads is the
\* stored id with the greatest number.
C2_Step ==
    \A i \in 1..Len(reqs) :
        (reqs[i].pc = "selectMax" /\ reqs'[i].pc = "insert") =>
            IF Len(table) = 0
            THEN reqs'[i].newId = <<"B", "O", "N", "0", "0", "0", "1">>
            ELSE /\ \A k \in 1..Len(table) :
                        BonusNumber(table[k].bonus_id)
                            <= BonusNumber(reqs'[i].lastRead[1])
                 /\ IsPaddedId(reqs'[i].newId)
                 /\ \A k \in 1..Len(table) :
                        BonusNumber(reqs'[i].newId)
                            >= BonusNumber(table[k].bonus_id) + 1
                 /\ \E k \in 1..Len(table) :
                        BonusNumber(reqs'[i].newId)
                            = BonusNumber(table[k].bonus_id) + 1

\* C2: in every table state reachable by creates, generateBonusId returns
\* BON0001 for the empty table and otherwise BON followed by exactly four
\* zero-padded digits numbering (greatest stored number) + 1, the id read
\* being the stored id with the greatest number.
C2_NextIdPaddedSuccessor == [][C2_Step]_vars

\* C3 (state part): no sixth attempt is started; retries counts the attempts
\* that failed; the process has exited exactly when maxRetries attempts have
\* failed; the initializer has returned only with the table in place.
C3_Counts ==
    /\ attempts <= maxRetries
    /\ proc = "exited" <=> retries = maxRetries
    /\ initPc \in {"connect", "createTable", "done"} => retries = attempts - 1
    /\ initPc \in {"sleep", "exited"} => retries = attempts
    /\ initPc = "done" => tableExists
    /\ initPc = "exited" <=> proc = "exited"

\* C3 (step part): a failure of the connection or of the table creation adds
\* exactly one to retries, nothing else does; once the initializer has
\* returned or the process has exited no attempt follows.
C3_Steps ==
    /\ retries' # retries =>
          /\ retries' = retries + 1
          /\ initPc \in {"connect", "createTable"}
          /\ attempts' = attempts
    /\ attempts' # attempts => attempts' = attempts + 1 /\ initPc = "sleep"
    /\ initPc \in {"done", "exited"} =>
          UNCHANGED <<initPc, attempts, retries, proc>>

\* C3: attempts follow one another until the first that connects and creates
\* the table; either failure consumes one attempt; there is no sixth attempt;
\* the process exits exactly when five attempts have failed; every run ends
\* with the table initialized or with the process exited.
C3_InitializerRetries ==
    /\ []C3_Counts
    /\ [][C3_Steps]_vars
    /\ <>(initPc = "done" \/ proc = "exited")

\* four attempts failed and the fifth initialized the table
C3_Witness ==
    /\ initPc = "done"
    /\ tableExists
    /\ retries = maxRetries - 1
    /\ attempts = maxRetries

\* the rules of the validator, each on a field that may be absent or of any
\* type
RuleEmployeeId(d) ==
    /\ d.employee_id.t = "string"
    /\ MatchEmployeeId(d.employee_id.s)
    /\ d.employee_id.s # EmpZero

RuleName(d) ==
    /\ d.employee_name.t = "string"
    /\ MatchName(d.employee_name.s)
    /\ Len(d.employee_name.s) >= MinNameLen
    /\ Len(d.employee_name.s) <= MaxNameLen

RuleEmail(d) == d.employee_email.t = "string" /\ MatchEmail(d.employee_email.s)

RuleBonusType(d) == d.bonus_type.t = "string" /\ d.bonus_type.s \in BonusTypes

RuleAmount(d) == ~ToNumber(d.amount).nan /\ ToNumber(d.amount).n > 0

RuleMonthYear(d) ==
    /\ d.month_year.t = "string"
    /\ d.month_year.s # <<>>
    /\ DateParse(d.month_year.s \o <<" ", "1">>).valid

RuleReason(d) ==
    \/ d.reason.t = "undefined"
    \/ d.reason.t = "string" /\ Len(d.reason.s) <= MaxReasonLen

ViolatesRule(d) ==
    ~(/\ RuleEmployeeId(d) /\ RuleName(d) /\ RuleEmail(d) /\ RuleBonusType(d)
      /\ RuleAmount(d) /\ RuleMonthYear(d) /\ RuleReason(d))

\* one message per violated rule, in the order of the fields
ExpectedErrors(d) ==
    Push(Push(Push(Push(Push(Push(Push(<<>>,
      ~RuleEmployeeId(d), ErrEmployeeId),
      ~RuleName(d), ErrName),
      ~RuleEmail(d), ErrEmail),
      ~RuleBonusType(d), ErrBonusType),
      ~RuleAmount(d), ErrAmount),
      ~RuleMonthYear(d), ErrMonthYear),
      ~RuleReason(d), ErrReason)

\* C4: a create request whose body violates a rule is answered 400 with the
\* joined messages and has sent nothing to the database; every stored row is
\* the row of a request whose body satisfies every rule.
C4_InvalidBodyRejected ==
    /\ \A i \in Creates :
          ViolatesRule(reqs[i].body) =>
             /\ reqs[i].pc = "done"
             /\ reqs[i].status = StatusBadRequest
             /\ reqs[i].error = Join(ExpectedErrors(reqs[i].body))
             /\ reqs[i].sent = 0
    /\ \A k \in 1..Len(table) :
          \E i \in Creates : /\ reqs[i].bonus = <<table[k]>>
                             /\ ~ViolatesRule(reqs[i].body)

\* C5: the validator returns, for every body, exactly the messages of the
\* violated rules in the order of the fields (the empty list exactly for a
\* body that satisfies every rule).
C5_ValidatorListsViolations ==
    \A i \in Creates :
        /\ ~reqs[i].threw
        /\ reqs[i].errors = ExpectedErrors(reqs[i].body)

\* C5 without the bodies whose employee_name is undefined or null: on those
\* the validator does return the expected list
C5_ExceptAbsentName ==
    \A i \in Creates :
        ~LengthThrows(reqs[i].body.employee_name) =>
            /\ ~reqs[i].threw
            /\ reqs[i].errors = ExpectedErrors(reqs[i].body)

\* the year a returned row shows in its month_year text
YearShown(row) ==
    ParseInt(SubSeq(row.month_year, MonthFieldWidth + 2, Len(row.month_year)))

YearOnly(q) == Truthy(q.year) /\ ~Truthy(q.month)
EndGiven(q) == Truthy(q.end_month) /\ Truthy(q.end_year)

\* C6 as stated: with year given and month not, whatever the other
\* parameters, every returned row is of the given year.
C6_YearOnlyAlwaysExact ==
    \A i \in Histories :
        (reqs[i].pc = "done" /\ YearOnly(reqs[i].query)) =>
            /\ reqs[i].status = StatusOk
            /\ \A k \in 1..Len(reqs[i].rows) :
                  YearShown(reqs[i].rows[k]) = ParseInt(reqs[i].query.year.s)

\* C6 amended: with year given, month not, and end_month and end_year not
\* both given, every returned row is of the given year.
C6_YearOnlyExactWithoutEnd ==
    \A i \in Histories :
        (reqs[i].pc = "done" /\ YearOnly(reqs[i].query)
            /\ ~EndGiven(reqs[i].query)) =>
            /\ reqs[i].status = StatusOk
            /\ \A k \in 1..Len(reqs[i].rows) :
                  YearShown(reqs[i].rows[k]) = ParseInt(reqs[i].query.year.s)

\* a year-only request returned rows of several months while the table holds
\* rows of another year
C6_Witness ==
    \E i \in Histories :
        /\ reqs[i].pc = "done"
        /\ YearOnly(reqs[i].query) /\ ~EndGiven(reqs[i].query)
        /\ \E k, l \in 1..Len(reqs[i].rows) :
              reqs[i].rows[k].month_year # reqs[i].rows[l].month_year
        /\ \E k \in 1..Len(table) :
              table[k].year # ParseInt(reqs[i].query.year.s)

\* the history request j asks for the employee of create i and nothing else,
\* and arrived after i was answered
AsksFor(j, i) ==
    /\ reqs[j].kind = "history"
    /\ i \in reqs[j].after
    /\ reqs[j].query = [NoQuery EXCEPT !.employee_id = reqs[i].body.employee_id]

\* C7: a create with a complete valid payload is answered 201 with an id of
\* BON and exactly four digits, and a history request for that employee
\* issued afterwards returns exactly one row, carrying that id.
C7_CreateThenHistory ==
    /\ \A i \in Creates :
          (reqs[i].pc = "done" /\ ~ViolatesRule(reqs[i].body)) =>
              /\ reqs[i].status = StatusCreated
              /\ IsPaddedId(reqs[i].bonus[1].bonus_id)
    /\ \A i \in Creates : \A j \in Histories :
          (reqs[i].status = StatusCreated /\ reqs[j].pc = "done" /\ AsksFor(j, i)) =>
              /\ reqs[j].status = StatusOk
              /\ Len(reqs[j].rows) = 1
              /\ reqs[j].rows[1].bonus_id = reqs[i].bonus[1].bonus_id

\* the values parameter $k must carry, by the text that introduces it
ExpectedParam(lit, q) ==
    CASE lit = LitEmployeeId -> q.employee_id
      [] lit = LitMonthGe    -> IntParam(q.month.s)
      [] lit = LitYearGe     -> IntParam(q.year.s)
      [] lit = LitMonthLe    -> IntParam(q.end_month.s)
      [] lit = LitYearLe     -> IntParam(q.end_year.s)
      [] lit = LitYearEq     -> IntParam(q.year.s)
      [] lit = LitSearchId   -> Str(<<"%">> \o q.search.s \o <<"%">>)
      [] lit = LitSearchName -> Str(<<"%">> \o q.search.s \o <<"%">>)

\* the pieces of text the handler's source holds
SourceText ==
    {LitSelect, LitEmployeeId, LitMonthGe, LitYearGe, LitMonthLe, LitYearLe,
     LitYearEq, LitSearchId, LitSearchName, LitSearchEnd, LitOrderBy}

\* C8: the placeholders of the built query are $1..$n in order of
\* appearance, n is the number of arguments, argument k is the value of the
\* filter that wrote $k, and the text consists of the source's own pieces.
C8_BoundParameters ==
    \A i \in Histories :
        LET sql == reqs[i].sql
            params == reqs[i].params
        IN  /\ PlaceholdersOf(sql) = [k \in 1..Len(params) |-> k]
            /\ \A f \in 1..Len(sql) :
                  /\ sql[f].lit \in SourceText
                  /\ sql[f].ph > 0 =>
                        params[sql[f].ph] = ExpectedParam(sql[f].lit, reqs[i].query)

\* a request with all six parameters: seven placeholders, six arguments of
\* three kinds
C8_Witness ==
    \E i \in Histories :
        /\ \A f \in DOMAIN NoQuery : Truthy(reqs[i].query[f])
        /\ Len(reqs[i].params) = 7
        /\ reqs[i].pc = "done"

\* creates i and j read the same greatest id and so computed the same next id
Raced(i, j) ==
    /\ i # j
    /\ reqs[i].kind = "create" /\ reqs[j].kind = "create"
    /\ reqs[i].newId # <<>>
    /\ reqs[i].newId = reqs[j].newId
    /\ reqs[i].lastRead = reqs[j].lastRead

RowsWithId(id) == {k \in 1..Len(table) : table[k].bonus_id = id}

InitializerState == <<initPc, retries, attempts, proc, tableExists>>

\* C10: a request whose statement the database runs before the table exists
\* is answered 500, stores nothing and leaves the process and the
\* initializer as they are; no step of a request changes the initializer's
\* state, and no step of the initializer changes a request or the rows.
C10_Steps ==
    /\ \A i \in 1..Len(reqs) :
          (~tableExists /\ reqs[i].pc # "done" /\ reqs'[i] # reqs[i]) =>
              /\ reqs'[i].pc = "done"
              /\ reqs'[i].status = StatusServerError
              /\ reqs'[i].bonus = <<>> /\ reqs'[i].rows = <<>>
              /\ table' = table
              /\ proc' = "running"
    /\ reqs' # reqs => InitializerState' = InitializerState
    /\ InitializerState' # InitializerState => reqs' = reqs /\ table' = table
    /\ ~tableExists => table = <<>>

\* C10: every step of the service, taken while the initializer may still be
\* retrying, satisfies C10_Steps: requests run before the table exists end
\* in 500 with nothing stored, and requests and initializer never touch each
\* other's state.
C10_EarlyRequests == [][C10_Steps]_vars

\* a create and a history request were answered 500 for the missing table
\* while the initializer was retrying, and the initializer then succeeded
C10_Witness ==
    /\ initPc = "done"
    /\ retries >= 1
    /\ \E i \in Creates : reqs[i].error = "Failed to create bonus: " \o ErrNoTable
    /\ \E j \in Histories :
          reqs[j].error = "Failed to fetch bonus history: " \o ErrNoTable

=============================================================================
